---- MODULE Spec2Model ----
(***************************************************************************)
(* A model of the beer toolkit's mixture engine (beer/models/mixture.py),  *)
(* of the diagonal Normal parameter conversion (beer/dists/normaldiag.py)  *)
(* and of the mksphoneloop command (beer/cli/subcommands/shmm).            *)
(*                                                                         *)
(* Numbers are exact rationals <<num, den>> (den > 0, lowest terms): the   *)
(* code's floating-point arithmetic is modelled by the real arithmetic it  *)
(* approximates.  numpy arrays live in a heap of cells, so that in-place   *)
(* updates (+=) and aliasing between objects are visible to the model.     *)
(***************************************************************************)
EXTENDS Integers, Sequences, FiniteSets, TLC

VARIABLES
    heap,        \* the numpy arrays: address -> vector of rationals
    mixtures,    \* the Mixture objects, in creation order
    acc_stats,   \* the statistics last returned by exp_llh(accumulate=True)
    resps,       \* the responsibilities computed by that call
    last,        \* the last call and the state it started from
    nupdates,    \* natural_grad_update calls so far
    nsplits,     \* split calls so far
    nd,          \* a NormalDiagonalCovariance pdf and its conversions
    mk,          \* the mksphoneloop command: its position and its data
    nc,          \* a call of Normal.create
    st,          \* a call of init_weights_stats / init_means_precisions_stats
    conc         \* two natural_grad_update calls in progress on one mixture

vars == <<heap, mixtures, acc_stats, resps, last, nupdates, nsplits, nd, mk,
          nc, st, conc>>

\* the machines added to the mixture, the Normal pdf and the command
others == <<nc, st, conc>>

mixvars == <<heap, mixtures, acc_stats, resps, last, nupdates, nsplits>>

----------------------------------------------------------------------------
(* Bounds of the model. *)

MaxComponents == 2
MaxSplits == 1
MaxUpdates == 2
MaxRows == 2

----------------------------------------------------------------------------
(* Exact rational arithmetic. *)

Abs(n) == IF n < 0 THEN -n ELSE n

RECURSIVE GCD(_, _)
GCD(a, b) == IF b = 0 THEN a ELSE GCD(b, a % b)

Rat(n, d) ==
    LET s == IF d < 0 THEN -1 ELSE 1
        g == GCD(Abs(n), Abs(d))
    IN  <<(s * n) \div g, (s * d) \div g>>

R(n) == <<n, 1>>

RAdd(x, y) == Rat(x[1] * y[2] + y[1] * x[2], x[2] * y[2])

RSub(x, y) == Rat(x[1] * y[2] - y[1] * x[2], x[2] * y[2])

RMul(x, y) == Rat(x[1] * y[1], x[2] * y[2])

RDiv(x, y) == Rat(x[1] * y[2], x[2] * y[1])

RLe(x, y) == x[1] * y[2] <= y[1] * x[2]

RAbs(x) == <<Abs(x[1]), x[2]>>

VAdd(a, b) == [i \in 1..Len(a) |-> RAdd(a[i], b[i])]

VSub(a, b) == [i \in 1..Len(a) |-> RSub(a[i], b[i])]

VScale(c, a) == [i \in 1..Len(a) |-> RMul(c, a[i])]

VZero(n) == [i \in 1..n |-> R(0)]

RECURSIVE RSum(_)
RSum(s) == IF Len(s) = 0 THEN R(0) ELSE RAdd(s[1], RSum(Tail(s)))

RECURSIVE VSum(_, _)
VSum(s, n) == IF Len(s) = 0 THEN VZero(n) ELSE VAdd(s[1], VSum(Tail(s), n))

----------------------------------------------------------------------------
(* Inputs. *)

Half == Rat(1, 2)

PriorCounts == {3}

\* natural parameters a component is created with (args of create_component_func)
ComponentArgs == {<<R(2), R(-1)>>}

Scales == {R(1), R(2)}

LRates == {Half, R(1)}

\* rows of sufficient statistics T[:, :-1]
StatRows == {<<R(1), R(1)>>, <<R(-2), R(4)>>}

\* per-component expected log-likelihoods, in units of log 2
LlhValues == {-1, 0, 2}

----------------------------------------------------------------------------
(* Priors and components. *)

\* DirichletPrior.from_std_parameters(alphas): natural parameters alphas - 1
DirichletFromStd(alphas) == [i \in 1..Len(alphas) |-> RSub(alphas[i], R(1))]

\* grad_lognorm(): the expected sufficient statistics, an injective function
\* of the natural parameters (gradient of a strictly convex log-normalizer)
GradLognorm(natural_params) == [grad_lognorm |-> natural_params]

Component(prior, posterior) == [prior |-> prior, posterior |-> posterior]

NComponents(mix) == Len(mix.components)

NCategories(h, addr) == Len(h[addr])

None == 0

\* create_component_func(**args): a prior and a posterior built from the same
\* parameters, as two objects (two arrays)
CreateComponent(h, args) ==
    [heap |-> h \o <<args, args>>,
     component |-> Component(Len(h) + 1, Len(h) + 2)]

\* comp.split(): two duplicates of the component, each with arrays of its own
ComponentSplit(h, comp) ==
    [heap |-> h \o <<h[comp.prior], h[comp.posterior],
                     h[comp.prior], h[comp.posterior]>>,
     components |-> <<Component(Len(h) + 1, Len(h) + 2),
                      Component(Len(h) + 3, Len(h) + 4)>>]

----------------------------------------------------------------------------
(* Mixture. *)

\* the matrix _prepare builds: one row per component, the component's
\* posterior grad_lognorm and the component's entry of the weights'
PrepareMatrix(h, mix) ==
    [i \in 1..NComponents(mix) |->
        [row |-> GradLognorm(h[mix.components[i].posterior]),
         weight |-> [vec |-> GradLognorm(h[mix.posterior_weights]),
                     idx |-> i]]]

\* a _prepare that pairs rows and weights without numpy's shape checks
PrepareNeverRaises(h, mix) == FALSE

\* np.vstack of no rows, and np.c_ of a matrix and a vector of another
\* length, raise ValueError
PrepareRaises(h, mix) ==
    \/ NComponents(mix) = 0
    \/ NCategories(h, mix.posterior_weights) # NComponents(mix)

Prepare(h, mix) == [mix EXCEPT !.np_params_matrix = PrepareMatrix(h, mix)]

\* self.posterior_weights = prior_weights: the same object, no copy
DeepCopyAlias(h, addr) == [heap |-> h, addr |-> addr]

\* copy.deepcopy(prior_weights)
DeepCopy(h, addr) == [heap |-> Append(h, h[addr]), addr |-> Len(h) + 1]

\* Mixture.__init__
MixtureInit(h, prior_weights, components, posterior_weights) ==
    LET post == IF posterior_weights # None
                THEN [heap |-> h, addr |-> posterior_weights]
                ELSE DeepCopy(h, prior_weights)
        self == [np_params_matrix |-> <<>>,
                 prior_weights |-> prior_weights,
                 components |-> components,
                 posterior_weights |-> post.addr]
    IN  [heap |-> post.heap,
         raised |-> PrepareRaises(post.heap, self),
         mix |-> Prepare(post.heap, self)]

RECURSIVE CreateComponents(_, _, _)
CreateComponents(h, n, args) ==
    IF n = 0 THEN [heap |-> h, components |-> <<>>]
    ELSE LET rest == CreateComponents(h, n - 1, args)
             c == CreateComponent(rest.heap, args)
         IN  [heap |-> c.heap,
              components |-> Append(rest.components, c.component)]

\* Mixture.create
MixtureCreate(h, n_components, args, prior_count) ==
    LET prior_np == DirichletFromStd([i \in 1..n_components |-> R(prior_count)])
        h1 == Append(h, prior_np)
        cs == CreateComponents(h1, n_components, args)
    IN  MixtureInit(cs.heap, Len(h) + 1, cs.components, None)

\* the gradient without the scale of the statistics
NaturalGradNoScale(prior_np, stats, posterior_np, scale) ==
    VSub(VAdd(prior_np, stats), posterior_np)

\* component.prior.natural_params + scale * comp_stats[i]
\*     - component.posterior.natural_params
NaturalGrad(prior_np, stats, posterior_np, scale) ==
    VSub(VAdd(prior_np, VScale(scale, stats)), posterior_np)

\* posterior.natural_params = lrate * natural_grad: assigned, not added
UpdatePosteriorAssign(h, prior, posterior, stats, scale, lrate) ==
    [h EXCEPT ![posterior] =
        VScale(lrate, NaturalGrad(h[prior], stats, h[posterior], scale))]

\* posterior.natural_params += lrate * natural_grad  (in place)
UpdatePosterior(h, prior, posterior, stats, scale, lrate) ==
    [h EXCEPT ![posterior] =
        VAdd(h[posterior],
             VScale(lrate, NaturalGrad(h[prior], stats, h[posterior], scale)))]

RECURSIVE UpdateComponents(_, _, _, _, _, _)
UpdateComponents(h, components, comp_stats, scale, lrate, i) ==
    IF i > Len(components) THEN h
    ELSE UpdateComponents(
             UpdatePosterior(h, components[i].prior, components[i].posterior,
                             comp_stats[i], scale, lrate),
             components, comp_stats, scale, lrate, i + 1)

\* natural_grad_update without its closing self._prepare()
NaturalGradUpdateStale(h, mix, acc, scale, lrate) ==
    LET h1 == UpdateComponents(h, mix.components, acc.comp, scale, lrate, 1)
        h2 == UpdatePosterior(h1, mix.prior_weights, mix.posterior_weights,
                              acc.weights, scale, lrate)
    IN  [heap |-> h2, mix |-> mix]

\* Mixture.natural_grad_update
NaturalGradUpdate(h, mix, acc, scale, lrate) ==
    LET h1 == UpdateComponents(h, mix.components, acc.comp, scale, lrate, 1)
        h2 == UpdatePosterior(h1, mix.prior_weights, mix.posterior_weights,
                              acc.weights, scale, lrate)
    IN  [heap |-> h2, mix |-> Prepare(h2, mix)]

\* np.c_[a, b].ravel()
Interleave(a, b) ==
    [k \in 1..(2 * Len(a)) |-> IF k % 2 = 1 THEN a[(k + 1) \div 2]
                                             ELSE b[k \div 2]]

RECURSIVE SplitComponents(_, _, _)
SplitComponents(h, components, i) ==
    IF i > Len(components) THEN [heap |-> h, components |-> <<>>]
    ELSE LET two == ComponentSplit(h, components[i])
             rest == SplitComponents(two.heap, components, i + 1)
         IN  [heap |-> rest.heap,
              components |-> two.components \o rest.components]

\* split without the .5 factor on the weights' natural parameters
MixtureSplitNoHalf(h, mix) ==
    LET prior_np == Interleave(h[mix.prior_weights], h[mix.prior_weights])
        post_np == Interleave(h[mix.posterior_weights],
                              h[mix.posterior_weights])
        h1 == h \o <<prior_np, post_np>>
        new == SplitComponents(h1, mix.components, 1)
    IN  MixtureInit(new.heap, Len(h) + 1, new.components, Len(h) + 2)

\* split that halves the natural parameters of the original's weights in
\* place (natural_params *= .5) before duplicating them
MixtureSplitInPlace(h, mix) ==
    LET h0 == [h EXCEPT
                  ![mix.prior_weights] = VScale(Half, h[mix.prior_weights]),
                  ![mix.posterior_weights] =
                      VScale(Half, h[mix.posterior_weights])]
        prior_np == Interleave(h0[mix.prior_weights], h0[mix.prior_weights])
        post_np == Interleave(h0[mix.posterior_weights],
                              h0[mix.posterior_weights])
        h1 == h0 \o <<prior_np, post_np>>
        new == SplitComponents(h1, mix.components, 1)
    IN  MixtureInit(new.heap, Len(h) + 1, new.components, Len(h) + 2)

\* Mixture.split
MixtureSplit(h, mix) ==
    LET prior_np == VScale(Half, Interleave(h[mix.prior_weights],
                                            h[mix.prior_weights]))
        post_np == VScale(Half, Interleave(h[mix.posterior_weights],
                                           h[mix.posterior_weights]))
        h1 == h \o <<prior_np, post_np>>
        new == SplitComponents(h1, mix.components, 1)
    IN  MixtureInit(new.heap, Len(h) + 1, new.components, Len(h) + 2)

----------------------------------------------------------------------------
(* exp_llh.  A batch is a sequence of rows; a row holds the sufficient     *)
(* statistics T[r, :-1] and the per-component expected log-likelihoods     *)
(* (T @ _np_params_matrix.T)[r], in units of log 2, so that exp is the     *)
(* exact rational 2^k.                                                     *)

Max(S) == CHOOSE x \in S : \A y \in S : y <= x

Range(s) == {s[i] : i \in 1..Len(s)}

Exp2(k) == IF k >= 0 THEN <<2 ^ k, 1>> ELSE <<1, 2 ^ (-k)>>

\* the maximum alone, taken for the log of the sum
LogSumExpMax(llh) == [max |-> Max(Range(llh)), sum |-> R(1)]

\* scipy.special.logsumexp: a_max + log(sum(exp(a - a_max)))
LogSumExp(llh) ==
    LET a_max == Max(Range(llh))
    IN  [max |-> a_max,
         sum |-> RSum([i \in 1..Len(llh) |-> Exp2(llh[i] - a_max)])]

\* np.exp(per_component_exp_llh - exp_llh[:, None]), one row
Responsibilities(llh) ==
    LET lse == LogSumExp(llh)
    IN  [i \in 1..Len(llh) |-> RDiv(Exp2(llh[i] - lse.max), lse.sum)]

StatDim(h, mix) == Len(h[mix.components[1].posterior])

\* resps.T @ T[:, :-1], resps.sum(axis=0)
Accumulate(rs, batch, n, dim) ==
    [comp |-> [i \in 1..n |->
                  VSum([r \in 1..Len(batch) |-> VScale(rs[r][i], batch[r].T)],
                       dim)],
     weights |-> [i \in 1..n |-> RSum([r \in 1..Len(batch) |-> rs[r][i]])]]

\* Mixture.exp_llh(X, accumulate=True)
ExpLlh(h, mix, batch) ==
    LET rs == [r \in 1..Len(batch) |-> Responsibilities(batch[r].llh)]
    IN  [resps |-> rs,
         acc_stats |-> Accumulate(rs, batch, NComponents(mix), StatDim(h, mix))]

\* the per-component log-likelihood vectors tried for a row
LlhVectors(n) ==
    {[i \in 1..n |-> IF i = k THEN v ELSE 0] : k \in 1..n, v \in LlhValues}

Rows(n) == [T : StatRows, llh : LlhVectors(n)]

RECURSIVE Batches(_, _)
Batches(n, rows) ==
    IF rows = 0 THEN {<<>>}
    ELSE LET shorter == Batches(n, rows - 1)
         IN  shorter \cup {Append(b, r) : b \in {x \in shorter : Len(x) = rows - 1},
                                          r \in Rows(n)}

\* the statistics a caller hands to natural_grad_update: those of an empty
\* batch and those of a one-row batch that favours the first component
AccInputs(h, mix) ==
    {ExpLlh(h, mix, batch).acc_stats :
        batch \in {<<>>,
                   <<[T |-> <<R(1), R(1)>>,
                      llh |-> [i \in 1..NComponents(mix) |->
                                  IF i = 1 THEN 1 ELSE 0]]>>}}

----------------------------------------------------------------------------
(* The calls. *)

NoAcc == [comp |-> <<>>, weights |-> <<>>]

Call(op, m, acc, scale, lrate, raised) ==
    [op |-> op, mix |-> m, acc |-> acc, scale |-> scale, lrate |-> lrate,
     raised |-> raised, batch |-> <<>>, heap |-> heap, mixtures |-> mixtures]

MixInit ==
    /\ heap = <<>>
    /\ mixtures = <<>>
    /\ acc_stats = [mix |-> 0, stats |-> NoAcc]
    /\ resps = <<>>
    /\ last = [op |-> "none", mix |-> 0, acc |-> NoAcc, scale |-> R(1),
               lrate |-> R(1), raised |-> FALSE, batch |-> <<>>,
               heap |-> <<>>, mixtures |-> <<>>]
    /\ nupdates = 0
    /\ nsplits = 0

\* Mixture.create(n_components, create_component_func, args, prior_count)
Create(n_components, args, prior_count) ==
    /\ mixtures = <<>>
    /\ LET new == MixtureCreate(heap, n_components, args, prior_count)
       IN  /\ last' = Call("create", Len(mixtures) + 1, NoAcc, R(1), R(1),
                           new.raised)
           /\ IF new.raised
              THEN UNCHANGED <<heap, mixtures>>
              ELSE /\ heap' = new.heap
                   /\ mixtures' = Append(mixtures, new.mix)
    /\ UNCHANGED <<acc_stats, resps, nupdates, nsplits, nd, mk, others>>

\* mixtures[m].split()
Split(m) ==
    /\ nsplits < MaxSplits
    /\ LET new == MixtureSplit(heap, mixtures[m])
       IN  /\ last' = Call("split", m, NoAcc, R(1), R(1), new.raised)
           /\ IF new.raised
              THEN UNCHANGED <<heap, mixtures>>
              ELSE /\ heap' = new.heap
                   /\ mixtures' = Append(mixtures, new.mix)
    /\ nsplits' = nsplits + 1
    /\ UNCHANGED <<acc_stats, resps, nupdates, nd, mk, others>>

\* mixtures[m].natural_grad_update(acc, scale, lrate)
Update(m, acc, scale, lrate) ==
    /\ nupdates < MaxUpdates
    /\ LET new == NaturalGradUpdate(heap, mixtures[m], acc, scale, lrate)
       IN  /\ heap' = new.heap
           /\ mixtures' = [mixtures EXCEPT ![m] = new.mix]
    /\ last' = Call("update", m, acc, scale, lrate, FALSE)
    /\ nupdates' = nupdates + 1
    /\ UNCHANGED <<acc_stats, resps, nsplits, nd, mk, others>>

\* mixtures[m].exp_llh(X, accumulate=True)
ExpLlhCall(m, batch) ==
    /\ LET out == ExpLlh(heap, mixtures[m], batch)
       IN  /\ resps' = out.resps
           /\ acc_stats' = [mix |-> m, stats |-> out.acc_stats]
    /\ last' = [Call("exp_llh", m, NoAcc, R(1), R(1), FALSE)
                    EXCEPT !.batch = batch]
    /\ UNCHANGED <<heap, mixtures, nupdates, nsplits, nd, mk, others>>

NdIdle == [pc |-> "idle"]

MkIdle == [pc |-> "idle"]

NcIdle == [pc |-> "idle"]

StIdle == [pc |-> "idle"]

ConcIdle == [pc |-> "idle"]

RestIdle == nc = NcIdle /\ st = StIdle /\ conc = ConcIdle

Init == MixInit /\ nd = NdIdle /\ mk = MkIdle /\ RestIdle

NextCreate ==
    \E n \in 0..MaxComponents, args \in ComponentArgs, c \in PriorCounts :
        Create(n, args, c)

NextSplit == \E m \in 1..Len(mixtures) : Split(m)

NextUpdate ==
    \E m \in 1..Len(mixtures) :
        \E acc \in AccInputs(heap, mixtures[m]), scale \in Scales,
           lrate \in LRates :
            Update(m, acc, scale, lrate)

Next == NextCreate \/ NextSplit \/ NextUpdate

Spec == Init /\ [][Next]_vars

----------------------------------------------------------------------------
(* exp_llh on a mixture fresh from Mixture.create, over every batch of at  *)
(* most MaxRows rows.                                                      *)

InitLlh ==
    /\ \E n \in 1..MaxComponents, args \in ComponentArgs, c \in PriorCounts :
          LET new == MixtureCreate(<<>>, n, args, c)
          IN  /\ heap = new.heap
              /\ mixtures = <<new.mix>>
    /\ acc_stats = [mix |-> 0, stats |-> NoAcc]
    /\ resps = <<>>
    /\ last = [op |-> "create", mix |-> 1, acc |-> NoAcc, scale |-> R(1),
               lrate |-> R(1), raised |-> FALSE, batch |-> <<>>,
               heap |-> <<>>, mixtures |-> <<>>]
    /\ nupdates = 0
    /\ nsplits = 0
    /\ nd = NdIdle
    /\ mk = MkIdle
    /\ RestIdle

\* one call per run: the batch is the input of the run
NextExpLlh ==
    \E m \in 1..Len(mixtures) :
        /\ acc_stats.mix = 0
        /\ \E batch \in Batches(NComponents(mixtures[m]), MaxRows) :
              ExpLlhCall(m, batch)

NextLlh == NextExpLlh

SpecLlh == InitLlh /\ [][NextLlh]_vars

----------------------------------------------------------------------------
(* NormalDiagonalCovariance: standard and natural parameters. *)

MaxDim == 2

Means == {R(-1), R(0), Rat(3, 2)}

DiagCovs == {Half, R(1), R(3)}

StdParams(mean, diag_cov) == [mean |-> mean, diag_cov |-> diag_cov]

\* torch.cat([a, b])
Cat(a, b) == a \o b

\* NormalDiagonalCovariance.natural_parameters
NaturalParameters(params) ==
    LET mean == params.mean
        diag_prec == [i \in 1..Len(params.diag_cov) |->
                         RDiv(R(1), params.diag_cov[i])]
    IN  Cat([i \in 1..Len(mean) |-> RMul(diag_prec[i], mean[i])],
            VScale(Rat(-1, 2), diag_prec))

\* the inverse with diag_cov = 1 / (-np2), the factor 2 forgotten
FromNaturalParametersNoTwo(natural_params) ==
    LET dim == Len(natural_params) \div 2
        np1 == SubSeq(natural_params, 1, dim)
        np2 == SubSeq(natural_params, dim + 1, 2 * dim)
        diag_cov == [i \in 1..dim |-> RDiv(R(1), RMul(R(-1), np2[i]))]
        mean == [i \in 1..dim |-> RMul(diag_cov[i], np1[i])]
    IN  StdParams(mean, diag_cov)

\* NormalDiagonalCovarianceStdParams.from_natural_parameters
FromNaturalParameters(natural_params) ==
    LET dim == Len(natural_params) \div 2
        np1 == SubSeq(natural_params, 1, dim)
        np2 == SubSeq(natural_params, dim + 1, 2 * dim)
        diag_cov == [i \in 1..dim |-> RDiv(R(1), RMul(R(-2), np2[i]))]
        mean == [i \in 1..dim |-> RMul(diag_cov[i], np1[i])]
    IN  StdParams(mean, diag_cov)

NdInit ==
    \E dim \in 1..MaxDim :
        \E mean \in [1..dim -> Means], diag_cov \in [1..dim -> DiagCovs] :
            nd = [pc |-> "created",
                  params |-> StdParams(mean, diag_cov),
                  created |-> StdParams(mean, diag_cov),
                  natural_params |-> <<>>]

\* natural_params = pdf.natural_parameters()
NdNaturalParameters ==
    /\ nd.pc = "created"
    /\ nd' = [nd EXCEPT !.pc = "natural",
                        !.natural_params = NaturalParameters(nd.params)]
    /\ UNCHANGED <<mixvars, mk, others>>

\* pdf.update_from_natural_parameters(natural_params)
NdUpdateFromNaturalParameters ==
    /\ nd.pc = "natural"
    /\ nd' = [nd EXCEPT !.pc = "updated",
                        !.params = FromNaturalParameters(nd.natural_params)]
    /\ UNCHANGED <<mixvars, mk, others>>

InitNd == MixInit /\ NdInit /\ mk = MkIdle /\ RestIdle

NextNd == NdNaturalParameters \/ NdUpdateFromNaturalParameters

SpecNd == InitNd /\ [][NextNd]_vars

----------------------------------------------------------------------------
(* mksphoneloop: main(args, logger), one action per stage of the command.  *)
(* Emission models are numbered 1..len(units_emissions); a group index is  *)
(* one more than the code's (Python counts from 0).                        *)

MaxGroups == 2
MaxStates == 2
MaxModels == 5

GroupNames == {"speech-unit", "non-speech-unit"}

\* the arcs of a left-to-right unit of k emitting states: state 0 enters,
\* state k + 1 leaves
LeftToRight(k) ==
    [i \in 1..(2 * k + 1) |->
        IF i % 2 = 1 THEN [start_id |-> i \div 2, end_id |-> i \div 2 + 1]
                     ELSE [start_id |-> i \div 2, end_id |-> i \div 2]]

Topologies == {<<>>} \cup {LeftToRight(k) : k \in 1..MaxStates}

GroupConfs ==
    [group_name : GroupNames, topology : Topologies, n_normal_per_state : {3}]

Confs == UNION {[1..n -> GroupConfs] : n \in 0..MaxGroups}

Min(S) == CHOOSE x \in S : \A y \in S : x <= y

\* modelset[start:end] (Python clamps both ends to the length)
Slice(modelset, start, end) ==
    LET n == Len(modelset)
        lo == IF start > n THEN n ELSE start
        hi == IF end > n THEN n ELSE end
    IN  SubSeq(modelset, lo + 1, hi)

\* iterate_units(modelset, nunits, nstates): the views, in the order yielded
IterateUnits(modelset, nunits, nstates) ==
    [u \in 1..nunits |-> Slice(modelset, (u - 1) * nstates, u * nstates)]

\* nstates = 0; for arc in topology: nstates = max(nstates, arc['end_id'] - 1)
RECURSIVE NStates(_, _)
NStates(topology, nstates) ==
    IF Len(topology) = 0 THEN nstates
    ELSE NStates(Tail(topology),
                 IF Head(topology).end_id - 1 > nstates
                 THEN Head(topology).end_id - 1 ELSE nstates)

\* the loop without its else clause: with no match, groupidx and groupconf
\* stay those of the last group
SelectGroupNoElse(conf, unit_group) ==
    LET matching == {i \in 1..Len(conf) : conf[i].group_name = unit_group}
    IN  IF matching = {} THEN Len(conf) ELSE Min(matching)

\* the group selected by the for / else over enumerate(conf); 0 when the
\* loop ends without a break
SelectGroup(conf, unit_group) ==
    LET matching == {i \in 1..Len(conf) : conf[i].group_name = unit_group}
    IN  IF matching = {} THEN 0 ELSE Min(matching)

MkInit ==
    \E conf \in Confs, unit_group \in GroupNames :
        mk = [pc |-> "read_conf", conf |-> conf, unit_group |-> unit_group,
              groupidx |-> 0, ncomps |-> 0, nstates |-> 0, nunits |-> 0,
              units_emissions |-> <<>>, loaded |-> FALSE,
              param_stats |-> {}, unit_stats |-> <<>>,
              latent_prior |-> FALSE, replaced |-> {}, units |-> <<>>,
              tpl |-> <<>>, gsm |-> FALSE, latent_posts |-> 0,
              pdfvecs |-> 0, updated |-> <<>>, files |-> <<>>,
              error |-> "none", trace |-> <<>>]

MkAt(pc) == mk.pc = pc

MkGoto(m, from, to) == [m EXCEPT !.pc = to, !.trace = Append(m.trace, from)]

MkRaise(m, from, error) ==
    [m EXCEPT !.pc = "raised", !.error = error,
              !.trace = Append(m.trace, from)]

\* lines 67-69: the configuration file is read
MkReadConf ==
    /\ MkAt("read_conf")
    /\ mk' = MkGoto(mk, "read_conf", "select_group")
    /\ UNCHANGED <<mixvars, nd, others>>

\* line 68: open(args.conf) fails (no such file)
MkReadConfFails ==
    /\ MkAt("read_conf")
    /\ mk' = MkRaise(mk, "read_conf", "OSError")
    /\ UNCHANGED <<mixvars, nd, others>>

\* lines 71-77: the group of the units is looked up
MkSelectGroup ==
    /\ MkAt("select_group")
    /\ LET groupidx == SelectGroup(mk.conf, mk.unit_group)
       IN  mk' = IF groupidx = 0
                 THEN MkRaise(mk, "select_group", "ValueError")
                 ELSE MkGoto([mk EXCEPT !.groupidx = groupidx],
                             "select_group", "topology")
    /\ UNCHANGED <<mixvars, nd, others>>

\* lines 79-87: the components per state and the states per unit
MkTopology ==
    /\ MkAt("topology")
    /\ LET groupconf == mk.conf[mk.groupidx]
       IN  mk' = MkGoto([mk EXCEPT
                            !.ncomps = groupconf.n_normal_per_state,
                            !.nstates = NStates(groupconf.topology, 0)],
                        "topology", "load_ploop")
    /\ UNCHANGED <<mixvars, nd, others>>

\* lines 89-94: the phone-loop is unpickled; units_emissions is the model
\* set of the group, of whatever length the file holds
MkLoadPloop ==
    /\ MkAt("load_ploop")
    /\ \E n \in 0..MaxModels :
          mk' = MkGoto([mk EXCEPT !.units_emissions = [i \in 1..n |-> i],
                                  !.loaded = TRUE],
                       "load_ploop", "count_units")
    /\ UNCHANGED <<mixvars, nd, others>>

\* line 90: open(args.phoneloop) fails (no such file)
MkLoadPloopFails ==
    /\ MkAt("load_ploop")
    /\ mk' = MkRaise(mk, "load_ploop", "OSError")
    /\ UNCHANGED <<mixvars, nd, others>>

\* line 96: nunits = len(units_emissions) // nstates
MkCountUnits ==
    /\ MkAt("count_units")
    /\ mk' = IF mk.nstates = 0
             THEN MkRaise(mk, "count_units", "ZeroDivisionError")
             ELSE MkGoto([mk EXCEPT
                             !.nunits = Len(mk.units_emissions) \div mk.nstates],
                         "count_units", "param_stats")
    /\ UNCHANGED <<mixvars, nd, others>>

\* lines 103-104: every parameter's statistics become posterior - prior
MkParamStats ==
    /\ MkAt("param_stats")
    /\ mk' = MkGoto([mk EXCEPT !.param_stats = 1..Len(mk.units_emissions)],
                    "param_stats", "unit_stats")
    /\ UNCHANGED <<mixvars, nd, others>>

\* lines 105-110: the weights and means/precisions statistics of every unit
MkUnitStats ==
    /\ MkAt("unit_stats")
    /\ mk' = MkGoto([mk EXCEPT !.unit_stats =
                        IterateUnits(mk.units_emissions, mk.nunits, mk.nstates)],
                    "unit_stats", "latent_prior")
    /\ UNCHANGED <<mixvars, nd, others>>

\* lines 112-115: the latent prior
MkLatentPrior ==
    /\ MkAt("latent_prior")
    /\ mk' = MkGoto([mk EXCEPT !.latent_prior = TRUE],
                    "latent_prior", "replace_parameters")
    /\ UNCHANGED <<mixvars, nd, others>>

\* lines 117-122: every parameter of units_emissions becomes a subspace
\* parameter
MkReplaceParameters ==
    /\ MkAt("replace_parameters")
    /\ mk' = MkGoto([mk EXCEPT !.replaced = 1..Len(mk.units_emissions)],
                    "replace_parameters", "units")
    /\ UNCHANGED <<mixvars, nd, others>>

\* lines 125-126: the unit views
MkUnits ==
    /\ MkAt("units")
    /\ mk' = MkGoto([mk EXCEPT !.units =
                        IterateUnits(mk.units_emissions, mk.nunits, mk.nstates)],
                    "units", "gsm")
    /\ UNCHANGED <<mixvars, nd, others>>

\* a unit that is the very objects of the unit given
DeepCopyUnitAlias(unit, nobjects) == unit

\* copy.deepcopy of a unit: one new object per model of the unit, the
\* objects so far being 1..nobjects
DeepCopyUnit(unit, nobjects) == [i \in 1..Len(unit) |-> nobjects + unit[i]]

\* a main that writes the GSM file as soon as the GSM exists
MkGSMWritesFile ==
    /\ MkAt("gsm")
    /\ mk' = IF Len(mk.units) = 0
             THEN MkRaise(mk, "gsm", "IndexError")
             ELSE MkGoto([mk EXCEPT
                             !.tpl = DeepCopyUnit(mk.units[1],
                                                  Len(mk.units_emissions)),
                             !.gsm = TRUE,
                             !.files = Append(mk.files, "gsm")],
                         "gsm", "latent_posts")
    /\ UNCHANGED <<mixvars, nd, others>>

\* lines 128-130: tpl = copy.deepcopy(units[0]); GSM.create(tpl, ...)
MkGSM ==
    /\ MkAt("gsm")
    /\ mk' = IF Len(mk.units) = 0
             THEN MkRaise(mk, "gsm", "IndexError")
             ELSE MkGoto([mk EXCEPT
                             !.tpl = DeepCopyUnit(mk.units[1],
                                                  Len(mk.units_emissions)),
                             !.gsm = TRUE],
                         "gsm", "latent_posts")
    /\ UNCHANGED <<mixvars, nd, others>>

\* lines 132-133: gsm.new_latent_posteriors(len(units))
MkLatentPosts ==
    /\ MkAt("latent_posts")
    /\ mk' = MkGoto([mk EXCEPT !.latent_posts = Len(mk.units)],
                    "latent_posts", "update_models")
    /\ UNCHANGED <<mixvars, nd, others>>

\* lines 135-137: the expected pdf vectors are pushed into the units
MkUpdateModels ==
    /\ MkAt("update_models")
    /\ mk' = MkGoto([mk EXCEPT !.pdfvecs = mk.latent_posts,
                               !.updated = mk.units],
                    "update_models", "save_gsm")
    /\ UNCHANGED <<mixvars, nd, others>>

\* lines 139-149: the three output files, one after the other
MkSave(from, file, to) ==
    /\ MkAt(from)
    /\ mk' = MkGoto([mk EXCEPT !.files = Append(mk.files, file)], from, to)
    /\ UNCHANGED <<mixvars, nd, others>>

\* lines 139, 143, 147: open(..., 'wb') fails (no such directory)
MkSaveFails(from) ==
    /\ MkAt(from)
    /\ mk' = MkRaise(mk, from, "OSError")
    /\ UNCHANGED <<mixvars, nd, others>>

MkSaveGSM == MkSave("save_gsm", "gsm", "save_posts")

MkSaveGSMFails == MkSaveFails("save_gsm")

MkSavePostsFails == MkSaveFails("save_posts")

MkSaveSploopFails == MkSaveFails("save_sploop")

MkSavePosts == MkSave("save_posts", "posts", "save_sploop")

MkSaveSploop == MkSave("save_sploop", "sploop", "done")

InitMain == MixInit /\ nd = NdIdle /\ MkInit /\ RestIdle

NextMain ==
    \/ MkSaveGSMFails
    \/ MkSavePostsFails
    \/ MkSaveSploopFails
    \/ MkReadConf
    \/ MkReadConfFails
    \/ MkSelectGroup
    \/ MkTopology
    \/ MkLoadPloop
    \/ MkLoadPloopFails
    \/ MkCountUnits
    \/ MkParamStats
    \/ MkUnitStats
    \/ MkLatentPrior
    \/ MkReplaceParameters
    \/ MkUnits
    \/ MkGSM
    \/ MkLatentPosts
    \/ MkUpdateModels
    \/ MkSaveGSM
    \/ MkSavePosts
    \/ MkSaveSploop

SpecMain == InitMain /\ [][NextMain]_vars

----------------------------------------------------------------------------
(* Properties of Mixture (checked under Spec). *)

Updated == last.op = "update"

SplitDone == last.op = "split" /\ ~last.raised

\* the mixture the last call was made on, and the one a split returned
Target == mixtures[last.mix]

Returned == mixtures[Len(mixtures)]

\* (1 - lrate) * old + lrate * (prior + scale * stats)
Blend(old, prior, stats, scale, lrate) ==
    VAdd(VScale(RSub(R(1), lrate), old),
         VScale(lrate, VAdd(prior, VScale(scale, stats))))

\* C1: natural_grad_update leaves every component posterior and the weights
\* posterior at old + lrate * (prior + scale * stats - old), old being the
\* value before the call; with lrate = 1 that is prior + scale * stats.
C1_NaturalGradStep ==
    Updated =>
        /\ \A i \in 1..NComponents(Target) :
              LET c == Target.components[i]
              IN  /\ heap[c.posterior] =
                        Blend(last.heap[c.posterior], last.heap[c.prior],
                              last.acc.comp[i], last.scale, last.lrate)
                  /\ last.lrate = R(1) =>
                        heap[c.posterior] =
                            VAdd(last.heap[c.prior],
                                 VScale(last.scale, last.acc.comp[i]))
        /\ heap[Target.posterior_weights] =
              Blend(last.heap[Target.posterior_weights],
                    last.heap[Target.prior_weights],
                    last.acc.weights, last.scale, last.lrate)
        /\ last.lrate = R(1) =>
              heap[Target.posterior_weights] =
                  VAdd(last.heap[Target.prior_weights],
                       VScale(last.scale, last.acc.weights))

\* a damped update (lrate 1/2, scale 2) with non-zero statistics of a mixture
\* of several components whose posteriors had already left the prior
C1_Witness ==
    /\ Updated
    /\ last.lrate = Half
    /\ last.scale = R(2)
    /\ NComponents(Target) >= 2
    /\ last.acc.weights[1] # R(0)
    /\ last.acc.comp[1] # last.acc.comp[2]
    /\ last.heap[Target.components[1].posterior] #
           last.heap[Target.components[1].prior]
    /\ last.heap[Target.posterior_weights] # last.heap[Target.prior_weights]

\* C2: the cached matrix of every mixture is the matrix _prepare would build
\* from the posteriors as they are now.
C2_CacheFresh ==
    \A m \in 1..Len(mixtures) :
        mixtures[m].np_params_matrix = PrepareMatrix(heap, mixtures[m])

\* a mixture returned by split was updated, and its cache changed with it
C2_Witness ==
    /\ Updated
    /\ last.mix >= 2
    /\ Target.np_params_matrix # last.mixtures[last.mix].np_params_matrix

\* C3: every mixture has as many components as its weights posterior and its
\* weights prior have categories, and at least one.
C3_ComponentCount ==
    \A m \in 1..Len(mixtures) :
        /\ NComponents(mixtures[m]) = NCategories(heap, mixtures[m].posterior_weights)
        /\ NComponents(mixtures[m]) = NCategories(heap, mixtures[m].prior_weights)
        /\ NComponents(mixtures[m]) >= 1

\* a split mixture of four components, updated
C3_Witness ==
    /\ Updated
    /\ last.mix >= 2
    /\ NComponents(Target) = 4

\* C4: split returns a mixture of twice as many components and categories,
\* whose weights-prior natural parameters are, two by two, half those of the
\* original, so that they sum to the original's total.
C4_SplitDoubles ==
    SplitDone =>
        LET n == NComponents(Target)
            old == heap[Target.prior_weights]
            new == heap[Returned.prior_weights]
        IN  /\ Len(mixtures) = Len(last.mixtures) + 1
            /\ NComponents(Returned) = 2 * n
            /\ Len(new) = 2 * n
            /\ Len(heap[Returned.posterior_weights]) = 2 * n
            /\ RSum(new) = RSum(old)
            /\ \A i \in 1..n :
                  /\ new[2 * i - 1] = RMul(Half, old[i])
                  /\ new[2 * i] = RMul(Half, old[i])

\* a mixture of two components is split after an update
C4_Witness ==
    /\ SplitDone
    /\ NComponents(Target) = 2
    /\ nupdates >= 1
    /\ RSum(heap[Target.prior_weights]) # R(0)

PosteriorAddrs(mix) ==
    {mix.posterior_weights} \cup
    {mix.components[i].posterior : i \in 1..NComponents(mix)}

\* C5: split leaves the mixture it is called on as it was (weights prior and
\* posterior, components, cache), and an update of one mixture leaves the
\* weights prior and posterior of every other mixture as they were.
C5_SplitFrame ==
    /\ SplitDone =>
          /\ Target = last.mixtures[last.mix]
          /\ SubSeq(mixtures, 1, Len(last.mixtures)) = last.mixtures
          /\ SubSeq(heap, 1, Len(last.heap)) = last.heap
    /\ Updated =>
          \A m \in 1..Len(mixtures) :
              m # last.mix =>
                  /\ heap[mixtures[m].prior_weights] =
                         last.heap[mixtures[m].prior_weights]
                  /\ heap[mixtures[m].posterior_weights] =
                         last.heap[mixtures[m].posterior_weights]
                  /\ mixtures[m] = last.mixtures[m]

\* the mixture returned by a split is updated and its weights posterior moves
C5_Witness ==
    /\ Updated
    /\ last.mix = 2
    /\ heap[Target.posterior_weights] # last.heap[Target.posterior_weights]

\* C6: natural_grad_update changes the posteriors of its mixture and nothing
\* else in the heap: every prior keeps its natural parameters, those of the
\* created mixture being the ones Mixture.create gave them; and the weights
\* posterior of a mixture is an array of its own, not the prior's.
C6_PriorImmutable ==
    /\ Updated =>
          /\ Len(heap) = Len(last.heap)
          /\ \A a \in 1..Len(heap) :
                a \notin PosteriorAddrs(Target) => heap[a] = last.heap[a]
          /\ heap[Target.prior_weights] = last.heap[Target.prior_weights]
          /\ \A i \in 1..NComponents(Target) :
                heap[Target.components[i].prior] =
                    last.heap[Target.components[i].prior]
    /\ Len(mixtures) >= 1 =>
          /\ \E c \in PriorCounts :
                heap[mixtures[1].prior_weights] =
                    DirichletFromStd([i \in 1..NComponents(mixtures[1]) |-> R(c)])
          /\ \A i \in 1..NComponents(mixtures[1]) :
                heap[mixtures[1].components[i].prior] \in ComponentArgs
    /\ \A m \in 1..Len(mixtures) :
          /\ mixtures[m].prior_weights # mixtures[m].posterior_weights
          /\ \A i \in 1..NComponents(mixtures[m]) :
                mixtures[m].components[i].prior \notin PosteriorAddrs(mixtures[m])

\* the created mixture (built without posterior_weights) is updated twice and
\* its weights posterior moves away from the prior
C6_Witness ==
    /\ Updated
    /\ last.mix = 1
    /\ nupdates = 2
    /\ heap[Target.posterior_weights] # last.heap[Target.posterior_weights]
    /\ heap[Target.posterior_weights] # heap[Target.prior_weights]

----------------------------------------------------------------------------
(* Properties of exp_llh (checked under SpecLlh). *)

ExpLlhDone == last.op = "exp_llh"

\* C7: the responsibilities of every row of the batch are non-negative and
\* sum to 1 over the components, one row of them per row of the batch, and
\* the accumulated weights statistics sum to the number of rows.
C7_Responsibilities ==
    ExpLlhDone =>
        /\ Len(resps) = Len(last.batch)
        /\ \A r \in 1..Len(resps) :
              /\ Len(resps[r]) = NComponents(Target)
              /\ \A i \in 1..Len(resps[r]) : RLe(R(0), resps[r][i])
              /\ RSum(resps[r]) = R(1)
        /\ Len(acc_stats.stats.weights) = NComponents(Target)
        /\ RSum(acc_stats.stats.weights) = R(Len(last.batch))

\* a batch of two rows with different, non-uniform responsibilities over two
\* components
C7_Witness ==
    /\ ExpLlhDone
    /\ Len(last.batch) = 2
    /\ NComponents(Target) = 2
    /\ resps[1] # resps[2]
    /\ resps[1][1] # resps[1][2]
    /\ resps[2][1] # resps[2][2]

----------------------------------------------------------------------------
(* The empty batch (checked under Spec). *)

ZeroStats(h, mix) ==
    [comp |-> [i \in 1..NComponents(mix) |-> VZero(StatDim(h, mix))],
     weights |-> VZero(NComponents(mix))]

\* every entry of a is at least as close to that of p as the entry of b is
NoFurther(a, b, p) ==
    \A k \in 1..Len(p) :
        RLe(RAbs(RSub(a[k], p[k])), RAbs(RSub(b[k], p[k])))

Drift(new, old, prior, lrate) ==
    /\ new = VAdd(old, VScale(lrate, VSub(prior, old)))
    /\ NoFurther(new, old, prior)
    /\ old = prior => new = old
    /\ lrate = R(1) => new = prior

\* C8: the statistics accumulated over an empty batch are zero vectors, and
\* an update with them moves every posterior to posterior + lrate * (prior -
\* posterior): no further from the prior than it was, unchanged when it was
\* the prior, and the prior itself when lrate = 1.
C8_EmptyBatchDrift ==
    /\ \A m \in 1..Len(mixtures) :
          ExpLlh(heap, mixtures[m], <<>>).acc_stats = ZeroStats(heap, mixtures[m])
    /\ (Updated /\ last.acc = ZeroStats(last.heap, Target)) =>
          /\ \A i \in 1..NComponents(Target) :
                LET c == Target.components[i]
                IN  Drift(heap[c.posterior], last.heap[c.posterior],
                          last.heap[c.prior], last.lrate)
          /\ Drift(heap[Target.posterior_weights],
                   last.heap[Target.posterior_weights],
                   last.heap[Target.prior_weights], last.lrate)

\* a damped update with the statistics of an empty batch, of posteriors that
\* an earlier update had moved away from the prior
C8_Witness ==
    /\ Updated
    /\ last.acc = ZeroStats(last.heap, Target)
    /\ last.lrate = Half
    /\ last.heap[Target.posterior_weights] # last.heap[Target.prior_weights]
    /\ last.heap[Target.components[1].posterior] #
           last.heap[Target.components[1].prior]
    /\ heap[Target.posterior_weights] # last.heap[Target.posterior_weights]

----------------------------------------------------------------------------
(* Properties of NormalDiagonalCovariance (checked under SpecNd). *)

----------------------------------------------------------------------------
(* Properties of mksphoneloop (checked under SpecMain). *)

\* the number of emission models is not (states per unit) x (unit count)
Mismatch ==
    /\ mk.loaded
    /\ IF mk.nstates = 0
       THEN Len(mk.units_emissions) # 0
       ELSE Len(mk.units_emissions) #
                mk.nstates * (Len(mk.units_emissions) \div mk.nstates)

\* C10: with mismatched counts main raises before any parameter is replaced
\* by a subspace parameter and before GSM.create is called: no parameter is
\* ever replaced, no GSM created, and the command does not complete.
C10_MismatchIsFatal ==
    Mismatch =>
        /\ mk.replaced = {}
        /\ ~mk.gsm
        /\ mk.pc # "done"

\* the stages main has gone through
MkDone(stage) == \E k \in 1..Len(mk.trace) : mk.trace[k] = stage

NoMatchingGroup ==
    \A i \in 1..Len(mk.conf) : mk.conf[i].group_name # mk.unit_group

\* C11: when no group of the configuration (an empty one included) has the
\* requested name, the group lookup raises ValueError at once: the phone-loop
\* is not loaded, no statistic is touched, no file is written; otherwise the
\* first group of that name, in configuration order, is the one selected.
C11_NoGroupRaises ==
    /\ (NoMatchingGroup /\ MkDone("select_group")) =>
          /\ mk.pc = "raised"
          /\ mk.error = "ValueError"
          /\ mk.trace = <<"read_conf", "select_group">>
          /\ ~mk.loaded
          /\ mk.param_stats = {}
          /\ mk.unit_stats = <<>>
          /\ mk.replaced = {}
          /\ mk.files = <<>>
    /\ mk.error = "ValueError" => NoMatchingGroup
    /\ (~NoMatchingGroup /\ MkDone("select_group")) =>
          /\ mk.groupidx \in 1..Len(mk.conf)
          /\ mk.conf[mk.groupidx].group_name = mk.unit_group
          /\ \A j \in 1..(mk.groupidx - 1) :
                mk.conf[j].group_name # mk.unit_group

\* a configuration of two groups, neither of the requested name, made the
\* lookup raise
C11_Witness ==
    /\ mk.pc = "raised"
    /\ mk.error = "ValueError"
    /\ Len(mk.conf) = 2
    /\ NoMatchingGroup

----------------------------------------------------------------------------
(* Normal.create(mean, cov, prior_strength, cov_type).  A tensor of one    *)
(* dimension is a sequence of numbers, a matrix a sequence of rows; the    *)
(* covariances tried are diagonal.                                         *)

CovTypeNames == {"full", "diagonal", "isotropic", "diag", "Full", ""}

PriorStrengths == {R(1), R(2)}

Vector(v) == [ndim |-> 1, v |-> v]

Matrix(m) == [ndim |-> 2, m |-> m]

\* torch.eye(n)
Eye(n) == [i \in 1..n |-> [j \in 1..n |-> IF i = j THEN R(1) ELSE R(0)]]

\* v.diag() of a vector: the diagonal matrix
DiagMatrix(v) ==
    [i \in 1..Len(v) |-> [j \in 1..Len(v) |-> IF i = j THEN v[i] ELSE R(0)]]

\* m.diag() of a matrix: its diagonal
Diagonal(m) == [i \in 1..Len(m) |-> m[i][i]]

\* lines 43-51: the covariance as a full matrix
EnsureFull(mean, cov) ==
    IF cov.ndim = 1
    THEN IF Len(cov.v) = 1
         THEN [i \in 1..Len(mean) |->
                  [j \in 1..Len(mean) |-> RMul(cov.v[1], Eye(Len(mean))[i][j])]]
         ELSE DiagMatrix(cov.v)
    ELSE cov.m

RMax(S) == CHOOSE x \in S : \A y \in S : RLe(y, x)

\* NormalIsotropicCovariance.create
IsotropicCreate(mean, cov, prior_strength) ==
    LET variance == RMax(Range(Diagonal(cov)))
    IN  [class |-> "NormalIsotropicCovariance",
         prior |-> [mean |-> mean, scale |-> prior_strength,
                    shape |-> prior_strength,
                    rate |-> <<RMul(prior_strength, variance)>>]]

\* NormalDiagonalCovariance.create
DiagonalCreate(mean, cov, prior_strength) ==
    [class |-> "NormalDiagonalCovariance",
     prior |-> [mean |-> mean, scale |-> prior_strength,
                shape |-> prior_strength,
                rate |-> VScale(prior_strength, Diagonal(cov))]]

\* NormalFullCovariance.create: scale_matrix = cov.inverse() / dof, of which
\* the diagonal is kept (cov is diagonal)
FullCreate(mean, cov, prior_strength) ==
    LET dof == RAdd(prior_strength, R(Len(mean) - 1))
    IN  [class |-> "NormalFullCovariance",
         prior |-> [mean |-> mean, scale |-> prior_strength,
                    scale_matrix |-> [i \in 1..Len(mean) |->
                                         RDiv(RDiv(R(1), cov[i][i]), dof)],
                    dof |-> dof]]

\* the table with two of its constructors exchanged
CovTypesExchanged ==
    [full |-> "NormalFullCovariance.create",
     diagonal |-> "NormalIsotropicCovariance.create",
     isotropic |-> "NormalDiagonalCovariance.create"]

\* cov_types (lines 179-183)
CovTypes ==
    [full |-> "NormalFullCovariance.create",
     diagonal |-> "NormalDiagonalCovariance.create",
     isotropic |-> "NormalIsotropicCovariance.create"]

\* the call of a constructor of the table
CallCreate(create, mean, cov, prior_strength) ==
    CASE create = "NormalFullCovariance.create" ->
             FullCreate(mean, cov, prior_strength)
      [] create = "NormalDiagonalCovariance.create" ->
             DiagonalCreate(mean, cov, prior_strength)
      [] create = "NormalIsotropicCovariance.create" ->
             IsotropicCreate(mean, cov, prior_strength)

NoModel == [class |-> "none"]

\* lines 53-58: the look-up raises KeyError, which becomes ValueError
Dispatch(cov_type, mean, full_cov, prior_strength) ==
    IF cov_type \in DOMAIN CovTypes
    THEN [raised |-> "none",
          normal |-> CallCreate(CovTypes[cov_type], mean, full_cov,
                                prior_strength)]
    ELSE [raised |-> "ValueError", normal |-> NoModel]

NcCovs(dim) ==
    {Vector(<<R(2)>>),
     Vector([i \in 1..dim |-> R(i)]),
     Matrix(DiagMatrix([i \in 1..dim |-> R(i + 1)]))}

NcInit ==
    \E dim \in 1..MaxDim, cov_type \in CovTypeNames,
       prior_strength \in PriorStrengths :
        \E mean \in {[i \in 1..dim |-> R(0)], [i \in 1..dim |-> R(i)]},
           cov \in NcCovs(dim) :
            nc = [pc |-> "called", mean |-> mean, cov |-> cov,
                  prior_strength |-> prior_strength, cov_type |-> cov_type,
                  full_cov |-> <<>>, normal |-> NoModel, error |-> "none"]

\* lines 43-51
NcEnsureFull ==
    /\ nc.pc = "called"
    /\ nc' = [nc EXCEPT !.pc = "dispatch",
                        !.full_cov = EnsureFull(nc.mean, nc.cov)]
    /\ UNCHANGED <<mixvars, nd, mk, st, conc>>

\* lines 53-58
NcDispatch ==
    /\ nc.pc = "dispatch"
    /\ LET out == Dispatch(nc.cov_type, nc.mean, nc.full_cov,
                           nc.prior_strength)
       IN  nc' = [nc EXCEPT
                     !.pc = IF out.raised = "none" THEN "returned" ELSE "raised",
                     !.error = out.raised,
                     !.normal = out.normal]
    /\ UNCHANGED <<mixvars, nd, mk, st, conc>>

InitNormal ==
    /\ MixInit
    /\ nd = NdIdle
    /\ mk = MkIdle
    /\ NcInit
    /\ st = StIdle
    /\ conc = ConcIdle

NextNormal == NcEnsureFull \/ NcDispatch

SpecNormal == InitNormal /\ [][NextNormal]_vars

\* C12: Normal.create raises ValueError and returns no model for every
\* cov_type other than "full", "diagonal" and "isotropic", and for these
\* three returns the model built by NormalFullCovariance,
\* NormalDiagonalCovariance and NormalIsotropicCovariance respectively.
C12_CovTypeDispatch ==
    nc.pc \in {"returned", "raised"} =>
        /\ nc.cov_type \notin {"full", "diagonal", "isotropic"} =>
              /\ nc.pc = "raised"
              /\ nc.error = "ValueError"
              /\ nc.normal = NoModel
        /\ nc.cov_type = "full" =>
              /\ nc.pc = "returned"
              /\ nc.normal = FullCreate(nc.mean, nc.full_cov, nc.prior_strength)
              /\ nc.normal.class = "NormalFullCovariance"
        /\ nc.cov_type = "diagonal" =>
              /\ nc.pc = "returned"
              /\ nc.normal =
                     DiagonalCreate(nc.mean, nc.full_cov, nc.prior_strength)
              /\ nc.normal.class = "NormalDiagonalCovariance"
        /\ nc.cov_type = "isotropic" =>
              /\ nc.pc = "returned"
              /\ nc.normal =
                     IsotropicCreate(nc.mean, nc.full_cov, nc.prior_strength)
              /\ nc.normal.class = "NormalIsotropicCovariance"

\* a cov_type that is almost a valid one ("diag") raised, for a mean of
\* dimension two
C12_Witness ==
    /\ nc.pc = "raised"
    /\ nc.cov_type = "diag"
    /\ Len(nc.mean) = 2
    /\ nc.error = "ValueError"

----------------------------------------------------------------------------
(* init_weights_stats and init_means_precisions_stats.  A tensor of        *)
(* statistics is a sequence of rows.  Each function returns the tensor it  *)
(* was given, as it is after the call, and the tensor it built.            *)

MaxStatRows == 3

MaxStatCols == 2

\* stats[:, -1]
LastColumn(stats) == [r \in 1..Len(stats) |-> stats[r][Len(stats[r])]]

\* the sum of every entry of a tensor
RECURSIVE EntriesSum(_)
EntriesSum(stats) ==
    IF Len(stats) = 0 THEN R(0)
    ELSE RAdd(RSum(stats[1]), EntriesSum(Tail(stats)))

Shape(stats) == <<Len(stats), Len(stats[1])>>

\* lines 30-37
InitWeightsStats(stats) ==
    LET counts == RSum(LastColumn(stats))
        ncomps == Len(stats[1])
    IN  [stats |-> stats,
         new_stats |->
             [r \in 1..Len(stats) |->
                 [k \in 1..ncomps |->
                     IF k = ncomps THEN RDiv(counts, R(3))
                     ELSE RDiv(counts, R(3 * ncomps))]]]

\* (stats * pi).sum(dim=0, keepdim=True)
WeightedRowSum(stats, pi) ==
    VSum([r \in 1..Len(stats) |-> VScale(pi[r], stats[r])], Len(stats[1]))

\* the function with the weights normalised to sum to one
InitMeansPrecisionsStatsNormalised(stats, pi) ==
    LET norm == [r \in 1..Len(pi) |-> RDiv(pi[r], RSum(pi))]
    IN  [stats |-> stats,
         new_stats |-> [r \in 1..Len(stats) |-> WeightedRowSum(stats, norm)]]

\* lines 42-48: the value of pi / pi.sum() is dropped
InitMeansPrecisionsStats(stats, pi) ==
    [stats |-> stats,
     new_stats |-> [r \in 1..Len(stats) |-> WeightedRowSum(stats, pi)]]

\* the last column of the weights statistics holds the counts
CountValues == {0, 1, 3}

WeightsStatsInputs(nrows, ncols) ==
    {[r \in 1..nrows |->
         [k \in 1..ncols |-> IF k = ncols THEN R(c) ELSE R(r - k)]] :
             c \in CountValues}

MeansPrecisionsStatsInputs(nrows, ncols) ==
    {[r \in 1..nrows |-> [k \in 1..ncols |-> R(r * k)]],
     [r \in 1..nrows |-> [k \in 1..ncols |-> R(k - 2)]]}

\* weights.value()
PiInputs(nrows) ==
    {[r \in 1..nrows |-> Rat(1, nrows)],
     [r \in 1..nrows |-> Rat(r, 4)],
     [r \in 1..nrows |-> R(1)]}

StInit ==
    \E nrows \in 1..MaxStatRows, ncomps \in 1..MaxStatCols,
       dim \in 1..MaxStatCols :
        \E w \in WeightsStatsInputs(nrows, ncomps),
           mp \in MeansPrecisionsStatsInputs(nrows, dim),
           pi \in PiInputs(nrows) :
            st = [pc |-> "weights",
                  given |-> [weights_stats |-> w, means_precisions_stats |-> mp],
                  weights_stats |-> w, means_precisions_stats |-> mp,
                  pi |-> pi,
                  new_weights_stats |-> <<>>,
                  new_means_precisions_stats |-> <<>>]

\* init_weights_stats(weights)
StInitWeightsStats ==
    /\ st.pc = "weights"
    /\ LET out == InitWeightsStats(st.weights_stats)
       IN  st' = [st EXCEPT !.pc = "means_precisions",
                            !.weights_stats = out.stats,
                            !.new_weights_stats = out.new_stats]
    /\ UNCHANGED <<mixvars, nd, mk, nc, conc>>

\* init_means_precisions_stats(means_precisions, weights)
StInitMeansPrecisionsStats ==
    /\ st.pc = "means_precisions"
    /\ LET out == InitMeansPrecisionsStats(st.means_precisions_stats, st.pi)
       IN  st' = [st EXCEPT !.pc = "done",
                            !.means_precisions_stats = out.stats,
                            !.new_means_precisions_stats = out.new_stats]
    /\ UNCHANGED <<mixvars, nd, mk, nc, conc>>

InitStats ==
    /\ MixInit
    /\ nd = NdIdle
    /\ mk = MkIdle
    /\ nc = NcIdle
    /\ StInit
    /\ conc = ConcIdle

NextStats == StInitWeightsStats \/ StInitMeansPrecisionsStats

SpecStats == InitStats /\ [][NextStats]_vars

WeightsStatsDone == st.pc \in {"means_precisions", "done"}

\* C13: init_weights_stats returns statistics of the shape of its input
\* whose entries sum to C, the sum of the last column of the input, and
\* leaves the input as it was.
C13_WeightsSumToC ==
    WeightsStatsDone =>
        /\ Shape(st.new_weights_stats) = Shape(st.given.weights_stats)
        /\ EntriesSum(st.new_weights_stats) =
               RSum(LastColumn(st.given.weights_stats))
        /\ st.weights_stats = st.given.weights_stats

\* C18: init_means_precisions_stats returns statistics of the shape of its
\* input of which every row is the sum over r of pi[r] * stats[r], pi being
\* weights.value() as given, and leaves the input as it was.
C18_SharedWeightedRow ==
    st.pc = "done" =>
        LET stats == st.given.means_precisions_stats
            new_stats == st.new_means_precisions_stats
        IN  /\ Shape(new_stats) = Shape(stats)
            /\ \A r \in 1..Len(new_stats) : \A k \in 1..Len(stats[1]) :
                   new_stats[r][k] =
                       RSum([q \in 1..Len(stats) |-> RMul(st.pi[q], stats[q][k])])
            /\ \A r, q \in 1..Len(new_stats) : new_stats[r] = new_stats[q]
            /\ st.means_precisions_stats = stats

\* two rows that differ, weighted by values that do not sum to one
C18_Witness ==
    /\ st.pc = "done"
    /\ Len(st.given.means_precisions_stats) >= 2
    /\ st.given.means_precisions_stats[1] # st.given.means_precisions_stats[2]
    /\ RSum(st.pi) # R(1)
    /\ st.new_means_precisions_stats[1] # VZero(Len(st.new_means_precisions_stats[1]))

\* the statements of main, in the order of the source
MainStages ==
    <<"read_conf", "select_group", "topology", "load_ploop", "count_units",
      "param_stats", "unit_stats", "latent_prior", "replace_parameters",
      "units", "gsm", "latent_posts", "update_models",
      "save_gsm", "save_posts", "save_sploop">>

AllParameters == 1..Len(mk.units_emissions)

\* C14: main re-initialises the statistics of every parameter before it
\* replaces any parameter, replaces them before it creates the GSM, creates
\* the GSM before the latent posteriors and those before it pushes the pdf
\* vectors into the units; there are as many latent posteriors as unit
\* views, and the template given to GSM.create is a copy that shares no
\* object with any unit.
C14_SetupOrder ==
    /\ Len(mk.trace) <= Len(MainStages)
    /\ \A k \in 1..Len(mk.trace) : mk.trace[k] = MainStages[k]
    /\ mk.replaced # {} =>
          /\ mk.param_stats = AllParameters
          /\ mk.unit_stats =
                 IterateUnits(mk.units_emissions, mk.nunits, mk.nstates)
          /\ MkDone("param_stats") /\ MkDone("unit_stats")
    /\ mk.gsm =>
          /\ mk.replaced = AllParameters
          /\ MkDone("replace_parameters")
          /\ Len(mk.tpl) = Len(mk.units[1])
          /\ \A i \in 1..Len(mk.tpl) :
                 mk.tpl[i] = Len(mk.units_emissions) + mk.units[1][i]
          /\ \A u \in 1..Len(mk.units) :
                 Range(mk.tpl) \cap Range(mk.units[u]) = {}
    /\ MkDone("latent_posts") =>
          /\ mk.gsm
          /\ mk.latent_posts = Len(mk.units)
          /\ mk.latent_posts = mk.nunits
    /\ MkDone("update_models") =>
          /\ MkDone("latent_posts")
          /\ mk.pdfvecs = Len(mk.units)
          /\ mk.updated = mk.units
    /\ ~MkDone("update_models") => mk.updated = <<>>
    /\ ~MkDone("latent_posts") => mk.latent_posts = 0
    /\ ~MkDone("gsm") => ~mk.gsm /\ mk.tpl = <<>>
    /\ ~MkDone("replace_parameters") => mk.replaced = {}

\* the pdf vectors were pushed into two units of two states
C14_Witness ==
    /\ MkDone("update_models")
    /\ Len(mk.units) = 2
    /\ Len(mk.tpl) = 2
    /\ mk.latent_posts = 2

----------------------------------------------------------------------------
(* Two calls of natural_grad_update on one mixture, statement by           *)
(* statement.  Each call keeps its natural_grad and the matrix of _prepare *)
(* in locals; the posteriors and the cache are shared.                     *)

Threads == {1, 2}

\* the posteriors in the order of the updates: the components, the weights
NPosteriors(mix) == NComponents(mix) + 1

PosteriorAt(mix, j) ==
    IF j <= NComponents(mix) THEN mix.components[j].posterior
    ELSE mix.posterior_weights

PriorAt(mix, j) ==
    IF j <= NComponents(mix) THEN mix.components[j].prior
    ELSE mix.prior_weights

StatsAt(mix, acc, j) ==
    IF j <= NComponents(mix) THEN acc.comp[j] ELSE acc.weights

\* a _prepare that keeps the matrix it finds
ConcPrepareReadStale(h, mix) == mix.np_params_matrix

\* the right-hand side of the assignment of _prepare
ConcPrepareRead(h, mix) == PrepareMatrix(h, mix)

ConcThread(acc, scale, lrate) ==
    [pc |-> "idle", j |-> 1, natural_grad |-> <<>>, matrix |-> <<>>,
     acc |-> acc, scale |-> scale, lrate |-> lrate]

InProgress(t) == conc.t[t].pc \notin {"idle", "done"}

Other(t) == 3 - t

\* a statement of call t: it overlaps the other call if that has begun and
\* not returned
ConcStep(t, thread) ==
    [conc EXCEPT !.t[t] = thread,
                 !.overlapped = conc.overlapped \/ InProgress(Other(t))]

\* line 148: the call begins
ConcCall(t) ==
    /\ conc.pc = "running"
    /\ conc.t[t].pc = "idle"
    /\ conc' = [ConcStep(t, [conc.t[t] EXCEPT !.pc = "grad"])
                   EXCEPT !.order = Append(conc.order, t)]
    /\ UNCHANGED <<heap, mixtures, acc_stats, resps, last, nupdates, nsplits,
                   nd, mk, nc, st>>

\* lines 153-155 and 161-162: natural_grad is computed from the posterior
ConcGrad(t) ==
    /\ conc.pc = "running"
    /\ conc.t[t].pc = "grad"
    /\ LET self == conc.t[t]
           mix == mixtures[1]
       IN  conc' = ConcStep(t, [self EXCEPT
                      !.pc = "add",
                      !.natural_grad =
                          NaturalGrad(heap[PriorAt(mix, self.j)],
                                      StatsAt(mix, self.acc, self.j),
                                      heap[PosteriorAt(mix, self.j)],
                                      self.scale)])
    /\ UNCHANGED <<heap, mixtures, acc_stats, resps, last, nupdates, nsplits,
                   nd, mk, nc, st>>

\* lines 158 and 163: natural_params += lrate * natural_grad
ConcAdd(t) ==
    /\ conc.pc = "running"
    /\ conc.t[t].pc = "add"
    /\ LET self == conc.t[t]
           mix == mixtures[1]
           posterior == PosteriorAt(mix, self.j)
       IN  /\ heap' = [heap EXCEPT ![posterior] =
                          VAdd(heap[posterior],
                               VScale(self.lrate, self.natural_grad))]
           /\ conc' = ConcStep(t, [self EXCEPT
                         !.pc = IF self.j = NPosteriors(mix) THEN "prepare"
                                ELSE "grad",
                         !.j = self.j + 1])
    /\ UNCHANGED <<mixtures, acc_stats, resps, last, nupdates, nsplits,
                   nd, mk, nc, st>>

\* lines 67-70: the matrix of _prepare is built
ConcPrepare(t) ==
    /\ conc.pc = "running"
    /\ conc.t[t].pc = "prepare"
    /\ conc' = ConcStep(t, [conc.t[t] EXCEPT
                   !.pc = "assign",
                   !.matrix = ConcPrepareRead(heap, mixtures[1])])
    /\ UNCHANGED <<heap, mixtures, acc_stats, resps, last, nupdates, nsplits,
                   nd, mk, nc, st>>

\* line 69: self._np_params_matrix = ...; the call returns
ConcAssign(t) ==
    /\ conc.pc = "running"
    /\ conc.t[t].pc = "assign"
    /\ mixtures' = [mixtures EXCEPT ![1].np_params_matrix = conc.t[t].matrix]
    /\ conc' = ConcStep(t, [conc.t[t] EXCEPT !.pc = "done"])
    /\ UNCHANGED <<heap, acc_stats, resps, last, nupdates, nsplits,
                   nd, mk, nc, st>>

InitConc ==
    /\ \E n \in 1..MaxComponents, args \in ComponentArgs, c \in PriorCounts :
          LET new == MixtureCreate(<<>>, n, args, c)
          IN  /\ heap = new.heap
              /\ mixtures = <<new.mix>>
              /\ \E acc1 \in AccInputs(new.heap, new.mix), lrate1 \in LRates,
                    acc2 \in AccInputs(new.heap, new.mix), scale2 \in Scales :
                     conc = [pc |-> "running",
                             t |-> <<ConcThread(acc1, R(1), lrate1),
                                     ConcThread(acc2, scale2, Half)>>,
                             overlapped |-> FALSE,
                             order |-> <<>>,
                             heap |-> new.heap,
                             mix |-> new.mix]
    /\ acc_stats = [mix |-> 0, stats |-> NoAcc]
    /\ resps = <<>>
    /\ last = [op |-> "create", mix |-> 1, acc |-> NoAcc, scale |-> R(1),
               lrate |-> R(1), raised |-> FALSE, batch |-> <<>>,
               heap |-> <<>>, mixtures |-> <<>>]
    /\ nupdates = 0
    /\ nsplits = 0
    /\ nd = NdIdle
    /\ mk = MkIdle
    /\ nc = NcIdle
    /\ st = StIdle

NextConc ==
    \E t \in Threads :
        ConcCall(t) \/ ConcGrad(t) \/ ConcAdd(t) \/ ConcPrepare(t)
            \/ ConcAssign(t)

SpecConc == InitConc /\ [][NextConc]_vars

ConcStarted == conc.pc = "running"

Returned2 == ConcStarted /\ \A t \in Threads : conc.t[t].pc = "done"

\* natural_grad_update of call t as one step, on heap h and mixture mix
ConcWhole(h, mix, t) ==
    NaturalGradUpdate(h, mix, conc.t[t].acc, conc.t[t].scale, conc.t[t].lrate)

\* call a and then call b, from the state before both
ConcSequential(a, b) ==
    LET one == ConcWhole(conc.heap, conc.mix, a)
    IN  ConcWhole(one.heap, one.mix, b)

\* C15: two calls of natural_grad_update on one mixture of which the second
\* begins after the first has returned end with every posterior at the
\* sequential composition of the two updates and with the cache built from
\* those posteriors; so does a single call.  (Calls that overlap can end
\* elsewhere: C15_Witness.)
C15_SequentialCalls ==
    /\ (Returned2 /\ ~conc.overlapped) =>
          LET two == ConcSequential(conc.order[1], conc.order[2])
          IN  /\ heap = two.heap
              /\ mixtures[1] = two.mix
              /\ mixtures[1].np_params_matrix = PrepareMatrix(heap, mixtures[1])
    /\ \A t \in Threads :
          (ConcStarted /\ conc.t[t].pc = "done" /\ conc.t[Other(t)].pc = "idle") =>
              /\ heap = ConcWhole(conc.heap, conc.mix, t).heap
              /\ mixtures[1] = ConcWhole(conc.heap, conc.mix, t).mix
              /\ mixtures[1].np_params_matrix = PrepareMatrix(heap, mixtures[1])

\* two overlapping calls have returned and left a posterior that neither
\* order of the two calls produces
C15_Witness ==
    /\ Returned2
    /\ conc.overlapped
    /\ heap # ConcSequential(1, 2).heap
    /\ heap # ConcSequential(2, 1).heap

\* two overlapping calls have returned and left a cache that is not the one
\* of the posteriors
StaleCache ==
    /\ Returned2
    /\ conc.overlapped
    /\ mixtures[1].np_params_matrix # PrepareMatrix(heap, mixtures[1])

OutputFiles == <<"gsm", "posts", "sploop">>

\* the stages up to the construction of the GSM
EarlyStages ==
    {"read_conf", "select_group", "topology", "load_ploop", "count_units",
     "param_stats", "unit_stats", "latent_prior", "replace_parameters",
     "units", "gsm"}

\* the stage at which main raised
RaisedAt == mk.trace[Len(mk.trace)]

\* C16: main writes the gsm, posts and sploop files in that order and only
\* after update_models has completed; an error raised in any stage up to the
\* construction of the GSM leaves no output file written.
C16_NoPartialResult ==
    /\ Len(mk.files) <= Len(OutputFiles)
    /\ \A k \in 1..Len(mk.files) : mk.files[k] = OutputFiles[k]
    /\ mk.files # <<>> =>
          /\ MkDone("update_models")
          /\ mk.updated = mk.units
          /\ mk.pdfvecs = Len(mk.units)
    /\ (mk.pc = "raised" /\ RaisedAt \in EarlyStages) => mk.files = <<>>
    /\ (mk.pc = "raised" /\ mk.files # <<>>) =>
          RaisedAt \in {"save_posts", "save_sploop"}

\* the construction of the GSM raised after the parameters were replaced,
\* and no file was written
C16_Witness ==
    /\ mk.pc = "raised"
    /\ RaisedAt = "gsm"
    /\ mk.replaced # {}
    /\ mk.files = <<>>

\* the unit views that hold model m
UnitsOf(m) == {u \in 1..Len(mk.units) : m \in Range(mk.units[u])}

\* C17: iterate_units yields nunits views, the idx-th being
\* modelset[idx * nstates : (idx + 1) * nstates]; the views are pairwise
\* disjoint, in index order and of length nstates, and every emission model
\* whose parameters were replaced belongs to exactly one view.
C17_UnitsCoverModels ==
    MkDone("units") =>
        /\ Len(mk.units) = mk.nunits
        /\ \A u \in 1..Len(mk.units) :
              /\ Len(mk.units[u]) = mk.nstates
              /\ \A i \in 1..mk.nstates :
                     mk.units[u][i] =
                         mk.units_emissions[(u - 1) * mk.nstates + i]
        /\ \A u, v \in 1..Len(mk.units) :
              u # v => Range(mk.units[u]) \cap Range(mk.units[v]) = {}
        /\ \A m \in mk.replaced : Cardinality(UnitsOf(m)) = 1

====
